---- MODULE Spec2Model ----
(***************************************************************************)
(* Model of sd-helper.py: a scheduler worker (main_job) that posts         *)
(* configured messages on weekday/time triggers unless today's date is in  *)
(* blacklist.yml, and a stream listener worker (stream_sd) that appends    *)
(* dates to blacklist.yml on authorized chat commands.                     *)
(*                                                                         *)
(* Text is modelled as sequences of one-character strings so that slicing  *)
(* (s[11:]), startswith, str(date) and the YAML line format are computed.  *)
(* Time is a pair <<day, minute>>: day 0 is Monday 2024-06-03 and a day    *)
(* has MinutesPerDay minutes.                                              *)
(***************************************************************************)
EXTENDS Integers, Sequences, FiniteSets, TLC

\* ------------------------------------------------------------------ bounds
MaxDay == 7
MinutesPerDay == 2
MaxTasks == 2

\* --------------------------------------------------------------- constants
WeekLen == 7
MentionCut == 11
KeywordCut == 10
BaseDom == 3
DaysInMonth == 30
OverflowLen == 15
PoolProcesses == 2

\* -------------------------------------------------------------- text tools
Mention == <<"@", "s", "d", "-", "h", "e", "l", "p", "e", "r">>
Keyword == <<"b", "l", "a", "c", "k", "l", "i", "s", "t", ":">>
YearMonth == <<"2", "0", "2", "4", "-", "0", "6", "-">>
Digits == <<"0", "1", "2", "3", "4", "5", "6", "7", "8", "9">>

Range(s) == {s[i] : i \in 1..Len(s)}

\* s.startswith(p)
StartsWith(s, p) == Len(s) >= Len(p) /\ SubSeq(s, 1, Len(p)) = p

\* s[n:]
Slice(s, n) == IF n >= Len(s) THEN <<>> ELSE SubSeq(s, n + 1, Len(s))

\* str.splitlines() of a string that holds no line break
SplitLines(s) == IF s = <<>> THEN <<>> ELSE <<s>>

IsDigit(c) == \E n \in 1..10 : Digits[n] = c
DigitVal(c) == (CHOOSE n \in 1..10 : Digits[n] = c) - 1

\* str(date): the canonical YYYY-MM-DD text of day index d
DateStr(d) ==
    YearMonth \o <<Digits[((d + BaseDom) \div 10) + 1], Digits[((d + BaseDom) % 10) + 1]>>

RECURSIVE LStrip(_)
LStrip(s) == IF s # <<>> /\ s[1] = " " THEN LStrip(Tail(s)) ELSE s

\* dateutil.parser.parse(text).date(): exc is the exception parse raises
\* ("none" when it returns, and then ok = TRUE).  A number too long to be a
\* year, month, day or time of day is taken as the year and overflows the
\* C integer of datetime: OverflowError, which is not a ValueError.
ParseDate(text) ==
    LET t == LStrip(text) IN
    IF /\ Len(t) = 10
       /\ SubSeq(t, 1, 8) = YearMonth
       /\ IsDigit(t[9]) /\ IsDigit(t[10])
       /\ 10 * DigitVal(t[9]) + DigitVal(t[10]) \in 1..DaysInMonth
    THEN [ok |-> TRUE, exc |-> "none",
          date |-> 10 * DigitVal(t[9]) + DigitVal(t[10]) - BaseDom]
    ELSE IF Len(t) >= OverflowLen /\ \A i \in 1..Len(t) : IsDigit(t[i])
    THEN [ok |-> FALSE, exc |-> "OverflowError", date |-> 0]
    ELSE [ok |-> FALSE, exc |-> "ValueError", date |-> 0]

\* ---------------------------------------------------------- blacklist file
\* variant: the closing quote left out of the written line
EntryLineOpenQuote(new_date) == <<"-", " ", "'">> \o new_date

\* the line written by f.write("- '" + new_date + "'" + '\n')
EntryLine(new_date) == <<"-", " ", "'">> \o new_date \o <<"'">>

\* yaml.load of one "- '...'" line: the quoted scalar
YamlItem(line) == SubSeq(line, 4, Len(line) - 1)

\* a line that YAML reads as one item of a block sequence: - '<text>'
IsEntryLine(line) ==
    /\ Len(line) >= 4
    /\ SubSeq(line, 1, 3) = <<"-", " ", "'">>
    /\ line[Len(line)] = "'"
    /\ \A i \in 4..(Len(line) - 1) : line[i] # "'"

\* a line that YAML reads as a plain scalar: no indicator character in it
IsPlainLine(line) ==
    /\ line # <<>>
    /\ \A i \in 1..Len(line) : line[i] \notin {"-", "'", " ", ":", "{", "["}

\* yaml.load(bl_ymlfile) of a file that is not empty: a list of strings, one
\* string (a document that is a single plain scalar), or yaml.YAMLError
yaml_load(file) ==
    IF \A i \in 1..Len(file) : IsEntryLine(file[i])
    THEN [kind |-> "list", items |-> [i \in 1..Len(file) |-> YamlItem(file[i])]]
    ELSE IF Len(file) = 1 /\ IsPlainLine(file[1])
    THEN [kind |-> "str", items |-> [i \in 1..Len(file[1]) |-> <<file[1][i]>>]]
    ELSE [kind |-> "YAMLError", items |-> <<>>]

\* variant: the loop of line 86 stops one entry short
get_blacklist_but_last(file) ==
    IF Len(file) = 0 THEN [exc |-> "none", list |-> <<>>]
    ELSE LET bl == yaml_load(file) IN
         IF bl.kind = "YAMLError"
         THEN [exc |-> "UnboundLocalError", list |-> <<>>]
         ELSE [exc |-> "none", list |-> SubSeq(bl.items, 1, Len(bl.items) - 1)]

\* get_blacklist(): exc is the exception that leaves the call ("none" when it
\* returns), list is the list returned.  A YAMLError is caught and printed,
\* which leaves bl unbound for the loop of line 86.
get_blacklist(file) ==
    IF Len(file) = 0 THEN [exc |-> "none", list |-> <<>>]
    ELSE LET bl == yaml_load(file) IN
         IF bl.kind = "YAMLError"
         THEN [exc |-> "UnboundLocalError", list |-> <<>>]
         ELSE [exc |-> "none", list |-> bl.items]

\* variant: the file opened with mode 'w', which truncates it
TruncateOpenWrite(file, line) == <<line>>

\* with open('blacklist.yml', 'a') as f: f.write(line)
AppendOpenWrite(file, line) == Append(file, line)

\* ------------------------------------------------------------ configuration
\* data.yml: section -> message, day (weekday indices, 0 = Monday), time
DataYml ==
    << [message |-> "standup", day |-> <<1, 0>>, time |-> <<1>>],
       [message |-> "release", day |-> <<0>>, time |-> <<1>>] >>

\* approved_users.yml
ApprovedUsersYml == <<"u1">>

RECURSIVE Insert(_, _)
Insert(x, s) ==
    IF s = <<>> THEN <<x>>
    ELSE IF x <= Head(s) THEN <<x>> \o s
    ELSE <<Head(s)>> \o Insert(x, Tail(s))

RECURSIVE Sorted(_)
Sorted(s) == IF s = <<>> THEN <<>> ELSE Insert(Head(s), Sorted(Tail(s)))

\* get_data(): one [message, sorted(day), sorted(time)] per section
get_data(cfg) ==
    [i \in 1..Len(cfg) |-> <<cfg[i].message, Sorted(cfg[i].day), Sorted(cfg[i].time)>>]

\* get_approved_users()
get_approved_users(yml) == [i \in 1..Len(yml) |-> yml[i]]

\* ------------------------------------------------- schedule library objects
Weekday(d) == d % WeekLen

TimeLeq(a, b) == a[1] < b[1] \/ (a[1] = b[1] /\ a[2] <= b[2])

\* Job._schedule_next_run for every().<weekday>.at(time): the first moment
\* strictly after now that falls on the weekday at the given time
NextRun(weekday, at, now) ==
    LET ahead == (weekday - Weekday(now[1])) % WeekLen
        days_ahead == IF ahead = 0 THEN WeekLen ELSE ahead
    IN  IF days_ahead = WeekLen /\ at > now[2]
        THEN <<now[1], at>>
        ELSE <<now[1] + days_ahead, at>>

\* getattr(schedule.every(), weekday).at(this_time).do(job, msg = task[0])
NewJob(id, weekday, at, msg, now) ==
    [id |-> id, weekday |-> weekday, at |-> at, msg |-> msg,
     next_run |-> NextRun(weekday, at, now), last_run |-> <<>>]

\* variant: the loop over the times left out, only the first time registered
RegisterTimesFirst(js, msg, day_of_week, times, now) ==
    IF times = <<>> THEN js
    ELSE Append(js, NewJob(Len(js) + 1, day_of_week, Head(times), msg, now))

\* for this_time in task[2]
RECURSIVE RegisterTimes(_, _, _, _, _)
RegisterTimes(js, msg, day_of_week, times, now) ==
    IF times = <<>> THEN js
    ELSE RegisterTimes(Append(js, NewJob(Len(js) + 1, day_of_week, Head(times), msg, now)),
                       msg, day_of_week, Tail(times), now)

\* for day_of_week in task[1]
RECURSIVE RegisterDays(_, _, _, _, _)
RegisterDays(js, msg, days, times, now) ==
    IF days = <<>> THEN js
    ELSE RegisterDays(RegisterTimes(js, msg, Head(days), times, now),
                      msg, Tail(days), times, now)

\* for task in list_of_tasks
RECURSIVE RegisterTasks(_, _, _)
RegisterTasks(js, list_of_tasks, now) ==
    IF list_of_tasks = <<>> THEN js
    ELSE RegisterTasks(RegisterDays(js, Head(list_of_tasks)[1], Head(list_of_tasks)[2],
                                    Head(list_of_tasks)[3], now),
                       Tail(list_of_tasks), now)

BuildSchedule(list_of_tasks, now) == RegisterTasks(<<>>, list_of_tasks, now)

\* variant: ">" in place of ">="
ShouldRunStrict(j, now) == ~TimeLeq(now, j.next_run)

\* Job.should_run: datetime.now() >= self.next_run
ShouldRun(j, now) == TimeLeq(j.next_run, now)

\* sorted(runnable_jobs): by next_run, list order breaks ties
RECURSIVE SortJobs(_)
SortJobs(js) ==
    IF js = <<>> THEN <<>>
    ELSE LET m == CHOOSE i \in 1..Len(js) :
                    \A k \in 1..Len(js) :
                        \/ ~TimeLeq(js[k].next_run, js[i].next_run)
                        \/ (js[k].next_run = js[i].next_run /\ k >= i)
         IN  <<js[m]>> \o SortJobs(SubSeq(js, 1, m - 1) \o SubSeq(js, m + 1, Len(js)))

Runnable(js, now) ==
    LET Due(j) == ShouldRun(j, now) IN SortJobs(SelectSeq(js, Due))

JobIds(js) == {js[i].id : i \in 1..Len(js)}

\* variant: the decorator's default, cancel_on_failure=False
JobCancelOnFailureOff == FALSE

\* @catch_exceptions(cancel_on_failure=True) on job
JobCancelOnFailure == TRUE

\* variant: an except clause that does not match the exception raised
catch_exceptions_narrow(cancel_on_failure, raised) ==
    IF ~raised THEN "None" ELSE "raise"

\* the wrapper of catch_exceptions: what a call of the decorated job returns;
\* "raise" stands for the exception leaving the wrapper
catch_exceptions(cancel_on_failure, raised) ==
    IF ~raised THEN "None"
    ELSE IF cancel_on_failure THEN "CancelJob" ELSE "None"

\* Scheduler._run_job for the jobs of one run_pending call, in order.
\* failing: ids of the jobs whose requests.post raises in this call.
RECURSIVE RunJobs(_, _, _, _, _)
RunJobs(pending, js, now, failing, calls) ==
    IF pending = <<>> THEN [jobs |-> js, calls |-> calls, raised |-> FALSE]
    ELSE LET j == Head(pending)
             ret == catch_exceptions(JobCancelOnFailure, j.id \in failing)
             NotJ(x) == x.id # j.id
             ran == [i \in 1..Len(js) |->
                        IF js[i].id = j.id
                        THEN [js[i] EXCEPT !.last_run = now,
                                           !.next_run = NextRun(j.weekday, j.at, now)]
                        ELSE js[i]]
         IN  IF ret = "raise"
             THEN [jobs |-> js, calls |-> Append(calls, j.id), raised |-> TRUE]
             ELSE RunJobs(Tail(pending),
                          IF ret = "CancelJob" THEN SelectSeq(ran, NotJ) ELSE ran,
                          now, failing, Append(calls, j.id))

\* schedule.run_pending()
run_pending(js, now, failing) == RunJobs(Runnable(js, now), js, now, failing, <<>>)

\* variant: the membership test inverted
SuppressedInverted(today, current_blacklist) ==
    DateStr(today) \notin Range(current_blacklist)

\* str(datetime.datetime.now().date()) not in current_blacklist, negated
Suppressed(today, current_blacklist) == DateStr(today) \in Range(current_blacklist)

\* ------------------------------------------------------------ stream lines
\* A stream line: raw is the decoded text of the line (a JSON document is the
\* single symbol "{json}"), json is what json.loads makes of it ("object": a
\* message with text and fromUser; "nokeys": JSON without them; "malformed":
\* not JSON), the other fields are the content of the message object.
RawLine(raw, json) ==
    [raw |-> raw, json |-> json, text |-> <<>>, displayName |-> "", id |-> ""]

Message(text, displayName, id) ==
    [raw |-> <<"{json}">>, json |-> "object", text |-> text,
     displayName |-> displayName, id |-> id]

KeepAliveLine == RawLine(<<" ">>, "malformed")
EmptyLine == RawLine(<<>>, "malformed")
SpacesLine == RawLine(<<" ", " ">>, "malformed")
GarbageLine == RawLine(<<"{">>, "malformed")
NoKeysLine == RawLine(<<"{", "}">>, "nokeys")

CmdDays == {0, 1}

CmdText(d) == Mention \o <<" ">> \o Keyword \o DateStr(d)
BadDateText == Mention \o <<" ">> \o Keyword \o <<"s", "o", "o", "n">>
HugeNumberText == Mention \o <<" ">> \o Keyword \o [i \in 1..OverflowLen |-> "9"]
OtherCmdText == Mention \o <<" ">> \o <<"h", "e", "l", "p">>
NoMentionText(d) == <<"h", "i", " ">> \o CmdText(d)

Texts ==
    {CmdText(d) : d \in CmdDays}
        \cup {BadDateText, HugeNumberText, OtherCmdText, NoMentionText(1)}

\* the lines the stream may deliver: alice (u1) is approved, mallory (u2) is not
StreamLines ==
    {KeepAliveLine, EmptyLine, SpacesLine, GarbageLine, NoKeysLine}
        \cup {Message(t, "alice", "u1") : t \in Texts}
        \cup {Message(CmdText(d), "mallory", "u2") : d \in CmdDays}

\* status codes of the stream response; 0 stands for requests.get raising
StreamStatuses == {200, 503, 0}

\* --------------------------------------------------------- stream listener
Reply(kind, date, user) == [kind |-> kind, date |-> date, user |-> user]

\* response_str.splitlines() != [' ']
NotKeepAlive(response_str) == SplitLines(response_str) # << <<" ">> >>

\* variant: "or" in place of "and"
PassesFilterOr(message_info, from_user_id, approved_users) ==
    StartsWith(message_info, Mention) \/ from_user_id \in Range(approved_users)

\* message_info.startswith('@sd-helper') and from_user_id in approved_users
PassesFilter(message_info, from_user_id, approved_users) ==
    StartsWith(message_info, Mention) /\ from_user_id \in Range(approved_users)

\* variant: "<=" in place of "<"
IsPastOrToday(date, today) == date <= today

\* parse(message_info).date() < datetime.datetime.now().date()
IsPast(date, today) == date < today

\* variant: the date looked up among the file's raw lines
AlreadyBlacklistedRaw(new_date, already_bl_dates) ==
    EntryLine(new_date) \in Range(already_bl_dates)

\* new_date in already_bl_dates
AlreadyBlacklisted(new_date, already_bl_dates) == new_date \in Range(already_bl_dates)

\* except ValueError: of line 179
CaughtByValueError(exc) == exc = "ValueError"

\* lines 160-181: the body of the blacklist command.  effects lists the file
\* write and the replies in the order the code performs them; exc is the
\* exception that leaves the try statement ("none" when none does).
BlacklistCommand(message_info, from_user, file, today) ==
    LET parsed == ParseDate(message_info)
        new_date == DateStr(parsed.date)
        already_bl_dates == get_blacklist(file)
        Result(f, replies, effects, exc) ==
            [file |-> f, replies |-> replies, effects |-> effects, exc |-> exc]
    IN  IF ~parsed.ok
        THEN IF CaughtByValueError(parsed.exc)
             THEN Result(file, <<Reply("invalid", <<>>, "")>>, <<"reply">>, "none")
             ELSE Result(file, <<>>, <<>>, parsed.exc)
        ELSE IF IsPast(parsed.date, today)
        THEN Result(file, <<Reply("past", <<>>, "")>>, <<"reply">>, "none")
        ELSE IF already_bl_dates.exc # "none"
        THEN IF CaughtByValueError(already_bl_dates.exc)
             THEN Result(file, <<Reply("invalid", <<>>, "")>>, <<"reply">>, "none")
             ELSE Result(file, <<>>, <<>>, already_bl_dates.exc)
        ELSE IF AlreadyBlacklisted(new_date, already_bl_dates.list)
        THEN Result(file, <<Reply("already", new_date, "")>>, <<"reply">>, "none")
        ELSE Result(AppendOpenWrite(file, EntryLine(new_date)),
                    <<Reply("success", new_date, from_user)>>,
                    <<"write", "reply">>, "none")

\* lines 144-181: the body of the loop over the stream's lines.
\* handed: the line was given to json.loads; exc: the exception that leaves
\* the loop ("none" when none does); crashed: exc # "none"
HandleLine(line, file, today) ==
    LET Result(f, replies, effects, handed, exc) ==
            [file |-> f, replies |-> replies, effects |-> effects,
             handed |-> handed, exc |-> exc, crashed |-> exc # "none"]
    IN  IF ~NotKeepAlive(line.raw)
        THEN Result(file, <<>>, <<>>, FALSE, "none")
        ELSE IF line.json = "malformed"
        THEN Result(file, <<>>, <<>>, TRUE, "JSONDecodeError")
        ELSE IF line.json # "object"
        THEN Result(file, <<>>, <<>>, TRUE, "KeyError")
        ELSE IF ~PassesFilter(line.text, line.id, get_approved_users(ApprovedUsersYml))
        THEN Result(file, <<>>, <<>>, TRUE, "none")
        ELSE IF ~StartsWith(Slice(line.text, MentionCut), Keyword)
        THEN Result(file, <<>>, <<>>, TRUE, "none")
        ELSE LET r == BlacklistCommand(Slice(Slice(line.text, MentionCut), KeywordCut),
                                       line.displayName, file, today)
             IN  Result(r.file, r.replies, r.effects, TRUE, r.exc)

\* ------------------------------------------------------------------ poster
\* variant: the test for 4xx placed before the tests for 404 and 401
ClassifyReordered(status_code) ==
    IF status_code >= 500 THEN "ServerError"
    ELSE IF status_code >= 400 THEN "BadRequest"
    ELSE IF status_code = 404 THEN "NotFound"
    ELSE IF status_code = 401 THEN "AuthFailure"
    ELSE IF status_code >= 300 THEN "UnexpectedRedirect"
    ELSE IF status_code = 200 THEN "Success"
    ELSE "UnknownStatus"

\* job lines 201-217: the branch taken for the status code of the response
Classify(status_code) ==
    IF status_code >= 500 THEN "ServerError"
    ELSE IF status_code = 404 THEN "NotFound"
    ELSE IF status_code = 401 THEN "AuthFailure"
    ELSE IF status_code >= 400 THEN "BadRequest"
    ELSE IF status_code >= 300 THEN "UnexpectedRedirect"
    ELSE IF status_code = 200 THEN "Success"
    ELSE "UnknownStatus"

\* ------------------------------------------------------------------ workers
\* main(): Pool(processes=2) gives each of the two tasks a process of its
\* own; an exception that leaves a task is kept in its AsyncResult and ends
\* that task only.  ExceptionReach(task): the tasks such an exception ends.
Workers == {"main_job", "stream_sd"}

\* variant: both tasks called in one process, an exception ends the program
ExceptionReachAll(task) == Workers

ExceptionReach(task) == {task}

\* -------------------------------------------------------------------- state
VARIABLES
    day,                \* index of the current calendar date
    minute,             \* current minute of the day
    polled,             \* the scheduler finished a tick in the current minute
    blacklist,          \* blacklist.yml: sequence of lines
    cfg,                \* data.yml
    schedPc,            \* main_job: "build", "read", "check" or "dead"
    jobs,               \* schedule's job list
    current_blacklist,  \* main_job's snapshot for the tick in progress
    tick,               \* the last finished tick
    failed,             \* ids of the jobs whose firing raised
    lateTicks,          \* ticks of the current day that called a job while
                        \* the day's date was in blacklist.yml
    lsPc,               \* stream_sd: "connect", "stream", "returned" or "crashed"
    last,               \* the stream line handled in the current minute, if any,
                        \* and what handling it did
    loadExc,            \* the exception that left a call of get_blacklist
    response            \* one call of job: status code received, branch taken

vars == <<day, minute, polled, blacklist, cfg, schedPc, jobs, current_blacklist, tick,
          failed, lateTicks, lsPc, last, loadExc, response>>

schedVars == <<schedPc, jobs, current_blacklist, tick, failed, lateTicks>>
listenVars == <<lsPc, last>>

NoTick == [day |-> -1, minute |-> -1, snapshot |-> <<>>, calls |-> <<>>, failed |-> {},
           stored |-> FALSE]
NoLast == [line |-> KeepAliveLine, day |-> -1, before |-> <<>>, replies |-> <<>>,
           effects |-> <<>>, handed |-> FALSE]
NoResponse == [status_code |-> 0, outcome |-> "", posts |-> 0]

\* both tasks submitted to the pool, the clock at some minute of day 0
InitWorkers ==
    /\ day = 0
    /\ minute \in 0..(MinutesPerDay - 1)
    /\ polled = FALSE
    /\ schedPc = "build"
    /\ jobs = <<>>
    /\ current_blacklist = <<>>
    /\ tick = NoTick
    /\ failed = {}
    /\ lateTicks = 0
    /\ lsPc = "connect"
    /\ last = NoLast
    /\ loadExc = "none"

Init ==
    /\ InitWorkers
    /\ blacklist = <<>>
    /\ cfg = DataYml
    /\ response = NoResponse

\* ------------------------------------------------------------------ actions
\* tasks of the pool that have a process and have not ended
Running ==
    {w \in Workers : \/ w = "main_job" /\ schedPc \in {"read", "check"}
                     \/ w = "stream_sd" /\ lsPc = "stream"}

\* the pc of a worker after an exception left task
SchedPcAfter(task, pc) == IF "main_job" \in ExceptionReach(task) THEN "dead" ELSE pc
ListenPcAfter(task, pc) == IF "stream_sd" \in ExceptionReach(task) THEN "crashed" ELSE pc

\* The clock moves to the next minute.  time.sleep(5) makes the loop poll
\* several times a minute, so a minute only passes once a tick has finished
\* in it (or the loop is gone).
Advance ==
    /\ polled \/ schedPc = "dead"
    /\ IF minute + 1 < MinutesPerDay
       THEN minute' = minute + 1 /\ day' = day /\ lateTicks' = lateTicks
       ELSE day < MaxDay /\ minute' = 0 /\ day' = day + 1 /\ lateTicks' = 0
    /\ polled' = FALSE
    /\ last' = NoLast
    /\ UNCHANGED <<blacklist, cfg, schedPc, jobs, current_blacklist, tick, failed,
                   lsPc, loadExc, response>>

\* main_job lines 221-228: read data.yml and register the jobs
MainJobBuild ==
    /\ schedPc = "build"
    /\ Cardinality(Running) < PoolProcesses
    /\ jobs' = BuildSchedule(get_data(cfg), <<day, minute>>)
    /\ schedPc' = "read"
    /\ UNCHANGED <<day, minute, polled, blacklist, cfg, current_blacklist, tick, failed,
                   lateTicks, listenVars, loadExc, response>>

\* main_job line 231: current_blacklist = get_blacklist()
SchedRead ==
    /\ schedPc = "read"
    /\ LET r == get_blacklist(blacklist) IN
       IF r.exc = "none"
       THEN /\ current_blacklist' = r.list
            /\ schedPc' = "check"
            /\ UNCHANGED <<lsPc, loadExc>>
       ELSE /\ schedPc' = "dead"
            /\ lsPc' = ListenPcAfter("main_job", lsPc)
            /\ loadExc' = r.exc
            /\ UNCHANGED current_blacklist
    /\ UNCHANGED <<day, minute, polled, blacklist, cfg, jobs, tick, failed, lateTicks,
                   last, response>>

\* main_job lines 232-234: the date test, run_pending and the sleep
SchedCheck ==
    /\ schedPc = "check"
    /\ LET stored == EntryLine(DateStr(day)) \in Range(blacklist) IN
       IF Suppressed(day, current_blacklist)
       THEN /\ tick' = [day |-> day, minute |-> minute, snapshot |-> current_blacklist,
                        calls |-> <<>>, failed |-> {}, stored |-> stored]
            /\ schedPc' = "read"
            /\ UNCHANGED <<jobs, failed, lateTicks, lsPc>>
       ELSE \E failing \in SUBSET JobIds(Runnable(jobs, <<day, minute>>)) :
                LET r == run_pending(jobs, <<day, minute>>, failing) IN
                /\ jobs' = r.jobs
                /\ tick' = [day |-> day, minute |-> minute,
                            snapshot |-> current_blacklist, calls |-> r.calls,
                            failed |-> failing \cap Range(r.calls), stored |-> stored]
                /\ failed' = failed \cup (failing \cap Range(r.calls))
                /\ lateTicks' = IF r.calls # <<>> /\ stored
                                THEN lateTicks + 1 ELSE lateTicks
                /\ schedPc' = IF r.raised THEN "dead" ELSE "read"
                /\ lsPc' = IF r.raised THEN ListenPcAfter("main_job", lsPc) ELSE lsPc
    /\ polled' = TRUE
    /\ UNCHANGED <<day, minute, blacklist, cfg, current_blacklist, last, loadExc,
                   response>>

\* stream_sd lines 132-141 and 183-185: open the stream
ListenerConnect ==
    /\ lsPc = "connect"
    /\ Cardinality(Running) < PoolProcesses
    /\ \E status_code \in StreamStatuses :
           /\ lsPc' = IF status_code = 0 THEN "crashed"
                      ELSE IF status_code = 200 THEN "stream" ELSE "returned"
           /\ schedPc' = IF status_code = 0 THEN SchedPcAfter("stream_sd", schedPc)
                         ELSE schedPc
    /\ UNCHANGED <<day, minute, polled, blacklist, cfg, jobs, current_blacklist, tick,
                   failed, lateTicks, last, loadExc, response>>

\* stream_sd lines 143-181: one line of the stream
ListenerLine ==
    /\ lsPc = "stream"
    /\ \E line \in StreamLines :
           LET r == HandleLine(line, blacklist, day) IN
           /\ blacklist' = r.file
           /\ last' = [line |-> line, day |-> day, before |-> blacklist,
                       replies |-> r.replies, effects |-> r.effects,
                       handed |-> r.handed]
           /\ lsPc' = IF r.crashed THEN "crashed" ELSE "stream"
           /\ schedPc' = IF r.crashed THEN SchedPcAfter("stream_sd", schedPc) ELSE schedPc
           /\ loadExc' = IF r.exc = "UnboundLocalError" THEN r.exc ELSE loadExc
    /\ UNCHANGED <<day, minute, polled, cfg, jobs, current_blacklist, tick, failed,
                   lateTicks, response>>

\* stream_sd line 143: iter_lines() is exhausted, the function returns
StreamClosed ==
    /\ lsPc = "stream"
    /\ lsPc' = "returned"
    /\ UNCHANGED <<day, minute, polled, blacklist, cfg, schedVars, last, loadExc,
                   response>>

Next ==
    \/ Advance
    \/ MainJobBuild
    \/ SchedRead
    \/ SchedCheck
    \/ ListenerConnect
    \/ ListenerLine
    \/ StreamClosed

Spec == Init /\ [][Next]_vars

\* ------------------------------------------- the workers on any store file
\* a line whose quoted scalar is not closed
UnterminatedLine(d) == <<"-", " ", "'">> \o DateStr(d)

\* contents blacklist.yml may have when the program starts
LoadFiles ==
    { <<>>,
      <<EntryLine(DateStr(1))>>,
      <<UnterminatedLine(1)>>,
      <<EntryLine(DateStr(0)), UnterminatedLine(1)>>,
      << <<"s", "o", "o", "n">> >> }

InitLoad ==
    /\ InitWorkers
    /\ blacklist \in LoadFiles
    /\ cfg = DataYml
    /\ response = NoResponse

\* the two workers within one minute
NextLoad ==
    \/ MainJobBuild
    \/ SchedRead
    \/ SchedCheck
    \/ ListenerConnect
    \/ ListenerLine
    \/ StreamClosed

SpecLoad == InitLoad /\ [][NextLoad]_vars

\* ---------------------------------------------- main_job on any data.yml
\* the lists without repetition over the elements of S
DistinctLists(S) ==
    {q \in UNION {[1..n -> S] : n \in 0..Cardinality(S)} :
        \A i, k \in DOMAIN q : i # k => q[i] # q[k]}

SectionNames == <<"first", "second", "third", "fourth">>

\* the day and time lists a section of data.yml may hold
SectionShapes ==
    {<<days, times>> : days \in DistinctLists({0, WeekLen - 1}),
                       times \in DistinctLists({0, MinutesPerDay - 1})}

\* data.yml files of up to MaxTasks sections, each with a message of its own
DataFiles ==
    {[i \in DOMAIN c |-> [message |-> SectionNames[i], day |-> c[i][1], time |-> c[i][2]]] :
        c \in UNION {[1..n -> SectionShapes] : n \in 0..MaxTasks}}

InitBuild ==
    /\ InitWorkers
    /\ blacklist = <<>>
    /\ cfg \in DataFiles
    /\ response = NoResponse

NextBuild == MainJobBuild

SpecBuild == InitBuild /\ [][NextBuild]_vars

\* ------------------------------------------------- job on any status code
StatusCodes == 100..600

\* job lines 199-217: one requests.post, then the branch for its status code
JobPost ==
    /\ response.posts = 0
    /\ response' = [response EXCEPT !.posts = response.posts + 1,
                                    !.outcome = Classify(response.status_code)]
    /\ UNCHANGED <<day, minute, polled, blacklist, cfg, schedVars, listenVars, loadExc>>

InitPost ==
    /\ InitWorkers
    /\ blacklist = <<>>
    /\ cfg = DataYml
    /\ response \in {[status_code |-> c, outcome |-> "", posts |-> 0] : c \in StatusCodes}

NextPost == JobPost

SpecPost == InitPost /\ [][NextPost]_vars

\* the scheduler loop keeps running and time passes
FairSpec ==
    /\ Spec
    /\ WF_vars(MainJobBuild) /\ WF_vars(SchedRead) /\ WF_vars(SchedCheck)
    /\ WF_vars(Advance)

\* ------------------------------------------------------------------- claims
\* the jobs registered at startup; triggers and ids do not depend on the time
StartupJobs == BuildSchedule(get_data(DataYml), <<0, 0>>)
StartupIds == JobIds(StartupJobs)

TickDone == tick.day >= 0
TickTime == <<tick.day, tick.minute>>
LineDone == last.day >= 0

\* a blacklist command for day d sent by an approved user
AuthorizedCmd(d) == Message(CmdText(d), "alice", "u1")
\* the same command sent by a user who is not approved
UnauthorizedCmd(d) == Message(CmdText(d), "mallory", "u2")

Stored(d, file) == \E i \in 1..Len(file) : file[i] = EntryLine(DateStr(d))
ReplyKinds(replies) == {replies[i].kind : i \in 1..Len(replies)}
IsBlank(raw) == \A i \in 1..Len(raw) : raw[i] = " "

\* C1: a tick whose blacklist snapshot contains the date of the tick fires no
\* job, however many jobs are due
C1_SuppressedTickFiresNothing ==
    (TickDone /\ DateStr(tick.day) \in Range(tick.snapshot)) => tick.calls = <<>>

C1_Witness ==
    /\ TickDone /\ schedPc = "read"
    /\ DateStr(tick.day) \in Range(tick.snapshot)
    /\ Cardinality({i \in 1..Len(jobs) : ShouldRun(jobs[i], TickTime)}) >= 2

\* C2: every job fired in a tick has that tick's weekday and minute as its
\* trigger weekday and time
C2_FiresOnlyAtTrigger ==
    \A i \in 1..Len(tick.calls) :
        /\ StartupJobs[tick.calls[i]].weekday = Weekday(tick.day)
        /\ StartupJobs[tick.calls[i]].at = tick.minute

C4_FailureKeepsLoopRunning ==
    /\ schedPc # "dead"
    /\ \A id \in tick.failed :
           Cardinality({i \in 1..Len(tick.calls) : tick.calls[i] = id}) = 1

C4_Witness ==
    /\ failed # {} /\ TickDone /\ tick.failed = {} /\ schedPc = "read"
    /\ \E id \in failed : id \notin JobIds(jobs)

\* C5: an authorized command for a date before today is answered with the
\* past-date reply and appends nothing, a command for today is not answered
\* with the past-date reply, and no appended date is before the day of the append
C5_NoPastDateAccepted ==
    LineDone =>
        /\ \A d \in CmdDays :
               last.line = AuthorizedCmd(d) =>
                   /\ d < last.day =>
                          /\ last.replies = <<Reply("past", <<>>, "")>>
                          /\ blacklist = last.before
                   /\ d = last.day => "past" \notin ReplyKinds(last.replies)
        /\ blacklist # last.before =>
               /\ blacklist # <<>>
               /\ ParseDate(YamlItem(blacklist[Len(blacklist)])).date >= last.day

C5_Witness ==
    /\ LineDone
    /\ \E d \in CmdDays : last.line = AuthorizedCmd(d) /\ d < last.day
    /\ last.replies = <<Reply("past", <<>>, "")>>

\* C6 as stated: an authorized command for a date already in the store gets
\* the already-blacklisted reply and leaves the store as it was
C6_ResubmitYieldsAlready ==
    \A d \in CmdDays :
        (LineDone /\ last.line = AuthorizedCmd(d) /\ Stored(d, last.before)) =>
            /\ last.replies = <<Reply("already", DateStr(d), "")>>
            /\ blacklist = last.before

\* C6 amended: such a command leaves the store as it was; its reply is
\* already-blacklisted when the date is today or later and the past-date
\* reply when the date is before today
C6_ResubmitAppendsNothing ==
    \A d \in CmdDays :
        (LineDone /\ last.line = AuthorizedCmd(d) /\ Stored(d, last.before)) =>
            /\ blacklist = last.before
            /\ last.replies = IF d >= last.day
                              THEN <<Reply("already", DateStr(d), "")>>
                              ELSE <<Reply("past", <<>>, "")>>

C6_Witness ==
    \E d \in CmdDays :
        /\ LineDone /\ last.line = AuthorizedCmd(d) /\ Stored(d, last.before)
        /\ d >= last.day
        /\ last.replies = <<Reply("already", DateStr(d), "")>>

\* C7: a message that does not start with the mention or whose sender is not
\* approved leaves the store as it was and gets no reply
C7_FilteredMessageHasNoEffect ==
    (/\ LineDone /\ last.line.json = "object"
     /\ \/ ~StartsWith(last.line.text, Mention)
        \/ last.line.id \notin Range(ApprovedUsersYml)) =>
        /\ blacklist = last.before
        /\ last.replies = <<>>

C7_Witness ==
    \E d \in CmdDays :
        /\ LineDone /\ last.line = UnauthorizedCmd(d)
        /\ d >= last.day /\ ~Stored(d, last.before)

\* C8: every step leaves the store as it was or adds one line at its end
C8_AppendOnly ==
    [][\/ blacklist' = blacklist
       \/ /\ Len(blacklist') = Len(blacklist) + 1
          /\ SubSeq(blacklist', 1, Len(blacklist)) = blacklist]_vars

C8_Witness ==
    /\ Len(blacklist) >= 2 /\ LineDone
    /\ blacklist = Append(last.before, blacklist[Len(blacklist)])

\* C9: a blank or whitespace-only line is not handed to the parser and the
\* listener goes on
C9_BlankLinesSkipped ==
    (LineDone /\ IsBlank(last.line.raw)) => (~last.handed /\ lsPc # "crashed")

\* C10: a line that is not a keep-alive and not a valid message object does
\* not end the listener
C10_MalformedLineSkipped ==
    (LineDone /\ last.line.raw # <<" ">> /\ last.line.json # "object") =>
        lsPc # "crashed"

IsMalformed(file) == file # <<>> /\ \E i \in 1..Len(file) : ~IsEntryLine(file[i])

\* C12: a Load of a malformed store raises the parse error to its caller, and
\* a Load of an empty store returns the empty list
C12_LoadSurfacesParseError ==
    [][(schedPc = "read" /\ schedPc' # "read") =>
           /\ IsMalformed(blacklist) => (schedPc' = "dead" /\ loadExc' = "YAMLError")
           /\ blacklist = <<>> => (schedPc' = "check" /\ current_blacklist' = <<>>)]_vars

\* the text YYYY-MM-DD of the days a command may name
IsoText(d) ==
    IF d = 0 THEN <<"2", "0", "2", "4", "-", "0", "6", "-", "0", "3">>
    ELSE <<"2", "0", "2", "4", "-", "0", "6", "-", "0", "4">>

\* C13: after a command for day d is accepted, a Load of the store returns a
\* list that holds the text YYYY-MM-DD of d exactly once
C13_LoadAfterAcceptHasDateOnce ==
    \A d \in CmdDays :
        (/\ LineDone /\ last.line = AuthorizedCmd(d)
         /\ "success" \in ReplyKinds(last.replies)) =>
            LET r == get_blacklist(blacklist) IN
            /\ r.exc = "none"
            /\ Cardinality({i \in 1..Len(r.list) : r.list[i] = IsoText(d)}) = 1

C13_Witness ==
    \E d \in CmdDays :
        /\ LineDone /\ last.line = AuthorizedCmd(d)
        /\ "success" \in ReplyKinds(last.replies)
        /\ last.before # <<>>
        /\ IsoText(d) \in Range(get_blacklist(blacklist).list)

RECURSIVE SumOfProducts(_)
SumOfProducts(c) ==
    IF c = <<>> THEN 0
    ELSE Len(Head(c).day) * Len(Head(c).time) + SumOfProducts(Tail(c))

JobsOf(section) == {k \in 1..Len(jobs) : jobs[k].msg = section.message}

\* C14: after the schedule is built every section with w weekdays and t times
\* has w*t jobs, one for each pair of a weekday and a time, and the number of
\* jobs is the sum of w*t over the sections
C14_OneJobPerWeekdayAndTime ==
    schedPc = "read" =>
        /\ Len(jobs) = SumOfProducts(cfg)
        /\ \A i \in 1..Len(cfg) :
               /\ Cardinality(JobsOf(cfg[i])) = Len(cfg[i].day) * Len(cfg[i].time)
               /\ \A w \in Range(cfg[i].day), t \in Range(cfg[i].time) :
                      Cardinality({k \in JobsOf(cfg[i]) :
                                      jobs[k].weekday = w /\ jobs[k].at = t}) = 1

C14_Witness ==
    /\ schedPc = "read" /\ Len(cfg) = 2 /\ Len(jobs) = 6
    /\ Len(cfg[1].day) = 2 /\ Len(cfg[1].time) = 2
    /\ cfg[1].day = <<WeekLen - 1, 0>>

\* C15 as stated: 5xx ServerError, 404 NotFound, 401 AuthFailure, other 4xx
\* BadRequest, 3xx UnexpectedRedirect, every 2xx Success, anything else
\* UnknownStatus; one call of job makes one request
C15_StatusClasses ==
    response.posts > 0 =>
        /\ response.posts = 1
        /\ response.outcome =
               LET c == response.status_code IN
               IF c \in 500..599 THEN "ServerError"
               ELSE IF c = 404 THEN "NotFound"
               ELSE IF c = 401 THEN "AuthFailure"
               ELSE IF c \in 400..499 THEN "BadRequest"
               ELSE IF c \in 300..399 THEN "UnexpectedRedirect"
               ELSE IF c \in 200..299 THEN "Success"
               ELSE "UnknownStatus"

\* C15 amended: every status of 500 or more ServerError, 404 NotFound, 401
\* AuthFailure, other 4xx BadRequest, 3xx UnexpectedRedirect, 200 alone
\* Success, every other status below 300 UnknownStatus; one request per call
C15_StatusClassesOnly200 ==
    response.posts > 0 =>
        /\ response.posts = 1
        /\ response.outcome =
               LET c == response.status_code IN
               IF c >= 500 THEN "ServerError"
               ELSE IF c = 404 THEN "NotFound"
               ELSE IF c = 401 THEN "AuthFailure"
               ELSE IF c \in 400..499 THEN "BadRequest"
               ELSE IF c \in 300..399 THEN "UnexpectedRedirect"
               ELSE IF c = 200 THEN "Success"
               ELSE "UnknownStatus"

C15_Witness ==
    /\ response.posts = 1 /\ response.status_code = 201
    /\ response.outcome = "UnknownStatus"

\* C16: a tick that reads its snapshot when a date is in the store has the
\* date in its snapshot, a tick that calls a job does not have its date in
\* its snapshot, and on one day at most one tick calls a job while the day's
\* date is in the store
C16_OnlyInFlightTickFires ==
    [][/\ (schedPc = "read" /\ schedPc' = "check") =>
              \A d \in CmdDays :
                  Stored(d, blacklist) => DateStr(d) \in Range(current_blacklist')
       /\ tick'.calls # <<>> => DateStr(tick'.day) \notin Range(tick'.snapshot)
       /\ lateTicks' <= 1]_vars

C16_Witness ==
    /\ lateTicks = 1 /\ tick.stored /\ tick.calls # <<>> /\ tick.day = day
    /\ schedPc = "check" /\ Suppressed(day, current_blacklist)

\* the date text of a blacklist command that passed the filter
CommandArg(line) == Slice(Slice(line.text, MentionCut), KeywordCut)

IsCommand(line) ==
    /\ line.json = "object"
    /\ PassesFilter(line.text, line.id, get_approved_users(ApprovedUsersYml))
    /\ StartsWith(Slice(line.text, MentionCut), Keyword)

\* C17: every blacklist command that passes the filter gets exactly one reply:
\* invalid if the date text does not parse, else past if the date is before
\* today, else already if the date is in the store, else success; the store
\* gets one line, written before the reply, exactly when the reply is success
C17_OneReplyByPrecedence ==
    (LineDone /\ IsCommand(last.line)) =>
        LET parsed == ParseDate(CommandArg(last.line))
            kind == IF ~parsed.ok THEN "invalid"
                    ELSE IF parsed.date < last.day THEN "past"
                    ELSE IF Stored(parsed.date, last.before) THEN "already"
                    ELSE "success"
        IN  /\ Len(last.replies) = 1
            /\ last.replies[1].kind = kind
            /\ IF kind = "success"
               THEN /\ blacklist = Append(last.before, EntryLine(DateStr(parsed.date)))
                    /\ last.effects = <<"write", "reply">>
               ELSE /\ blacklist = last.before
                    /\ last.effects = <<"reply">>

\* a job's trigger is the weekday and minute of the clock
TriggersNow(j) == j.weekday = Weekday(day) /\ j.at = minute

\* the first tick of a minute after the day of startup ends
FirstTickOfMinute == schedPc = "check" /\ schedPc' = "read" /\ ~polled /\ day >= 1

MinutesBetween(a, b) == (b[1] - a[1]) * MinutesPerDay + (b[2] - a[2])

\* C19: a job that is called again is called a full week after its last run
C19_FiringsAWeekApart ==
    [][\A i \in 1..Len(jobs) :
           (jobs[i].last_run # <<>> /\ tick' # tick /\ jobs[i].id \in Range(tick'.calls)) =>
               MinutesBetween(jobs[i].last_run, <<tick'.day, tick'.minute>>)
                   >= WeekLen * MinutesPerDay]_vars

\* C20: no line appears twice in the store
C20_EntriesUnique ==
    \A i, k \in 1..Len(blacklist) : i # k => blacklist[i] # blacklist[k]

C20_Witness ==
    /\ Len(blacklist) = 2 /\ LineDone
    /\ \E d \in CmdDays : last.line = AuthorizedCmd(d) /\ Stored(d, last.before)
    /\ "already" \in ReplyKinds(last.replies)

====
